---- MODULE Spec2Model ----
(***************************************************************************)
(* Model of the Binance spot REST client: bnc/rest.py (Request, Response,  *)
(* tidy_request_params, request) and the filter precision helper of        *)
(* bnc/spot.py (get_prec_just_for_binance_filter).                         *)
(*                                                                         *)
(* Python strings are sequences of one-character strings, Python values    *)
(* are records tagged by their type in field t, and an insertion-ordered   *)
(* dict is a sequence of [k, v] entries with distinct keys.                *)
(***************************************************************************)
EXTENDS Integers, Sequences, FiniteSets, TLC

VARIABLES
    req,        \* the Request descriptor handed to request()
    req0,       \* the descriptor as it was when the logical call started
    pc,         \* "idle": no call in progress, "running": inside request()
    calls,      \* logical calls started on the descriptor
    trace,      \* outcomes of the HTTP attempts of the current logical call
    sent,       \* arguments of the latest requests.request() call
    sleeps,     \* time.sleep(1) calls of the current logical call
    events,     \* the HTTP requests and sleeps of the current call, in order
    result,     \* outcome of the current logical call
    size,       \* argument of get_prec_just_for_binance_filter
    prec,       \* its outcome: pending, returned value, or raised exception
    tparams,    \* argument of tidy_request_params (the caller's mapping)
    tparams0,   \* the caller's mapping as it was before the call
    tout,       \* its outcome: pending or the returned mapping
    exsym,      \* an exchange symbol record, argument of to_cex_symbol
    finfo,      \* outcome of analyze_exchange_symbol_filters on its filters
    cexsym      \* outcome of to_cex_symbol

precVars == <<size, prec>>
tidyVars == <<tparams, tparams0, tout>>
symVars == <<exsym, finfo, cexsym>>

reqVars == <<req, req0, pc, calls, trace, sent, sleeps, events, result>>

vars == <<req, req0, pc, calls, trace, sent, sleeps, events, result, size, prec, tparams, tparams0, tout, exsym, finfo, cexsym>>

(***************************************************************************)
(* Bounds                                                                  *)
(***************************************************************************)
MaxSizeLen == 5     \* longest enumerated tick/step string
MaxListLen == 3     \* longest enumerated list parameter value
MaxCalls == 2       \* logical calls made on one descriptor
MaxFilters == 3     \* longest enumerated filter list

(***************************************************************************)
(* Python string primitives                                                *)
(***************************************************************************)
\* s.find(c) for a one-character c: 0-based index of the first occurrence, -1 if none
find(s, c) ==
    IF \E i \in 1..Len(s) : s[i] = c
    THEN (CHOOSE i \in 1..Len(s) : s[i] = c /\ \A j \in 1..(i - 1) : s[j] # c) - 1
    ELSE -1

\* s.split(sep) for a one-character sep: the list of parts
RECURSIVE split(_, _)
split(s, sep) ==
    LET i == find(s, sep)
    IN  IF i = -1
        THEN <<s>>
        ELSE <<SubSeq(s, 1, i)>> \o split(SubSeq(s, i + 2, Len(s)), sep)

\* s.lower(), on the characters that occur in str(bool)
lower(s) ==
    [i \in 1..Len(s) |->
        IF s[i] = "T" THEN "t" ELSE IF s[i] = "F" THEN "f" ELSE s[i]]

(***************************************************************************)
(* Python values                                                           *)
(***************************************************************************)
PyNone == [t |-> "None"]
PyBool(b) == [t |-> "bool", b |-> b]
PyInt(n) == [t |-> "int", n |-> n]
PyStr(s) == [t |-> "str", s |-> s]
PyList(items) == [t |-> "list", items |-> items]

Digits == <<"0", "1", "2", "3", "4", "5", "6", "7", "8", "9">>

RECURSIVE NatToStr(_)
NatToStr(n) ==
    IF n < 10 THEN <<Digits[n + 1]>> ELSE NatToStr(n \div 10) \o <<Digits[(n % 10) + 1]>>

\* str(v) for None, bool, int and str values
str(v) ==
    IF v.t = "None" THEN <<"N", "o", "n", "e">>
    ELSE IF v.t = "bool"
    THEN (IF v.b THEN <<"T", "r", "u", "e">> ELSE <<"F", "a", "l", "s", "e">>)
    ELSE IF v.t = "int"
    THEN (IF v.n < 0 THEN <<"-">> \o NatToStr(-v.n) ELSE NatToStr(v.n))
    ELSE v.s

(***************************************************************************)
(* Outcomes of a call: a returned value or a raised exception              *)
(***************************************************************************)
Pending == [st |-> "pending"]
Returned(v) == [st |-> "returned", val |-> v]
Raised(kind) == [st |-> "raised", exc |-> kind]

(***************************************************************************)
(* bnc/spot.py: get_prec_just_for_binance_filter                           *)
(***************************************************************************)
\* A string without fractional part and without "1" taken as precision 0.
get_prec_default_zero(s) ==
    LET parts == split(s, ".")
        integer_part == parts[1]
        one_index == find(integer_part, "1")
    IN  IF one_index # -1
        THEN Returned(one_index - Len(integer_part) + 1)
        ELSE IF Len(parts) = 1
        THEN Returned(0)
        ELSE LET decimal_part == parts[2]
                 dec_index == find(decimal_part, "1")
             IN  IF dec_index # -1
                 THEN Returned(dec_index + 1)
                 ELSE Raised("unknown size")

\* The fractional branch returning the 0-based index (the "+ 1" forgotten).
get_prec_zero_based(s) ==
    LET parts == split(s, ".")
        integer_part == parts[1]
        one_index == find(integer_part, "1")
    IN  IF one_index # -1
        THEN Returned(one_index - Len(integer_part) + 1)
        ELSE IF Len(parts) = 1
        THEN Raised("unknown size")
        ELSE LET decimal_part == parts[2]
                 dec_index == find(decimal_part, "1")
             IN  IF dec_index # -1
                 THEN Returned(dec_index)
                 ELSE Raised("unknown size")

get_prec_just_for_binance_filter(s) ==
    LET parts == split(s, ".")
        integer_part == parts[1]
        one_index == find(integer_part, "1")
    IN  IF one_index # -1
        THEN Returned(one_index - Len(integer_part) + 1)
        ELSE IF Len(parts) = 1
        THEN Raised("unknown size")
        ELSE LET decimal_part == parts[2]
                 dec_index == find(decimal_part, "1")
             IN  IF dec_index # -1
                 THEN Returned(dec_index + 1)
                 ELSE Raised("unknown size")

(***************************************************************************)
(* bnc/rest.py: tidy_request_params                                        *)
(***************************************************************************)
\* the loop of lines 38-42: what it appends to s for the items of the list
RECURSIVE list_items_text(_)
list_items_text(items) ==
    IF items = <<>>
    THEN <<>>
    ELSE (IF Head(items).t = "str"
          THEN <<"\"">> \o Head(items).s \o <<"\"", ",">>
          ELSE str(Head(items)))
         \o list_items_text(Tail(items))

\* lines 37-45: the string built for a non-empty list value
list_literal(items) ==
    LET s == <<"[">> \o list_items_text(items)
    IN  SubSeq(s, 1, Len(s) - 1) \o <<"]">>

\* lines 34-46: the value stored back under the key
tidy_value(v) ==
    IF v.t = "bool"
    THEN PyStr(lower(str(v)))
    ELSE IF v.t = "list" /\ Len(v.items) > 0
    THEN PyStr(list_literal(v.items))
    ELSE v

\* The comprehension of line 32 keeping the None entries.
tidy_request_params_keep_none(params) ==
    [i \in 1..Len(params) |-> [k |-> params[i].k, v |-> tidy_value(params[i].v)]]

IsNotNone(e) == e.v # PyNone

\* The loop of lines 33-46 run on the argument itself (no copy at line 32).
tidy_argument_in_place(params) ==
    [i \in 1..Len(params) |-> [k |-> params[i].k, v |-> tidy_value(params[i].v)]]

\* the caller's mapping after the call: line 32 rebinds params to a new dict,
\* lines 35 and 46 store into that dict, and no list is written to
tidy_argument_after(params) == params

tidy_request_params(params) ==
    LET kept == SelectSeq(params, IsNotNone)
    IN  [i \in 1..Len(kept) |-> [k |-> kept[i].k, v |-> tidy_value(kept[i].v)]]

(***************************************************************************)
(* Inputs of tidy_request_params                                           *)
(***************************************************************************)
s_BTCUSDT == <<"B", "T", "C", "U", "S", "D", "T">>
s_ETHUSDT == <<"E", "T", "H", "U", "S", "D", "T">>

ListItems == {PyStr(s_BTCUSDT), PyStr(s_ETHUSDT), PyInt(1), PyInt(2), PyInt(3)}

RECURSIVE ListsOver(_, _)
ListsOver(items, n) ==
    IF n = 0
    THEN {<<>>}
    ELSE LET shorter == ListsOver(items, n - 1)
         IN  shorter \cup {Append(l, x) : l \in {m \in shorter : Len(m) = n - 1}, x \in items}

ScalarValues == {PyNone, PyBool(TRUE), PyBool(FALSE), PyStr(s_BTCUSDT), PyInt(500)}

ListValues == {PyList(l) : l \in ListsOver(ListItems, MaxListLen)}

\* an argument is absent from the mapping or present with one of the values
Entry(key, values) == {<<>>} \cup {<<[k |-> key, v |-> v]>> : v \in values}

\* keyword arguments of get_spot_exchange_info, in the order of its signature
ParamsInputs ==
    {a \o b \o c :
        a \in Entry("symbol", ScalarValues),
        b \in Entry("symbols", ScalarValues \cup ListValues),
        c \in Entry("show_permission_sets", ScalarValues)}

(***************************************************************************)
(* Inputs of the precision helper                                          *)
(***************************************************************************)
SizeChars == {"0", "1", "2", "."}

RECURSIVE StringsOver(_, _)
StringsOver(chars, n) ==
    IF n = 0
    THEN {<<>>}
    ELSE LET shorter == StringsOver(chars, n - 1)
         IN  shorter \cup {Append(s, c) : s \in {t \in shorter : Len(t) = n - 1}, c \in chars}

\* tick/step strings quoted by the documentation of the helper and by Binance
SampleSizes ==
    { <<"0", ".", "0", "0", "1", "0", "0", "0", "0", "0">>,
      <<"1", ".", "0", "0", "0", "0", "0", "0", "0", "0">>,
      <<"1", "0", "0", ".", "0">>,
      <<"0", ".", "0", "1">>,
      <<"1", "0", "0", "0">>,
      <<"2", ".", "5">>,
      <<"0", ".", "0", "0", "5">> }

SizeInputs == StringsOver(SizeChars, MaxSizeLen) \cup SampleSizes

\* the pure functions at rest: not called, no argument
TidyIdle ==
    /\ tparams = <<>>
    /\ tparams0 = <<>>
    /\ tout = Pending

PrecIdle ==
    /\ size = <<>>
    /\ prec = Pending

SymIdle ==
    /\ exsym = PyNone
    /\ finfo = Pending
    /\ cexsym = Pending

(***************************************************************************)
(* Python dicts (insertion-ordered) and truthiness                         *)
(***************************************************************************)
PyDict(entries) == [t |-> "dict", d |-> entries]

DictHas(d, key) == \E i \in 1..Len(d) : d[i].k = key

\* d.get(key, default)
DictGet(d, key, default) ==
    IF DictHas(d, key) THEN d[CHOOSE i \in 1..Len(d) : d[i].k = key].v ELSE default

\* d[key] = value
DictSet(d, key, value) ==
    IF DictHas(d, key)
    THEN [i \in 1..Len(d) |-> IF d[i].k = key THEN [k |-> key, v |-> value] ELSE d[i]]
    ELSE Append(d, [k |-> key, v |-> value])

\* bool(v) of "if req.params:": None and the empty dict are false
Truthy(v) == v.t = "dict" /\ Len(v.d) > 0

(***************************************************************************)
(* urllib.parse.urlencode and json.loads                                   *)
(***************************************************************************)
\* quote_plus on one piece of text: the reserved characters are escaped
quote_char(c) ==
    IF c = "[" THEN <<"%5B">>
    ELSE IF c = "]" THEN <<"%5D">>
    ELSE IF c = "\"" THEN <<"%22">>
    ELSE IF c = "," THEN <<"%2C">>
    ELSE <<c>>

RECURSIVE quote_plus(_)
quote_plus(s) == IF s = <<>> THEN <<>> ELSE quote_char(Head(s)) \o quote_plus(Tail(s))

\* the text urlencode makes of a value: str(v), "[]" for the empty list
value_text(v) == IF v.t = "list" THEN <<"[", "]">> ELSE str(v)

RECURSIVE urlencode(_)
urlencode(d) ==
    IF d = <<>>
    THEN <<>>
    ELSE LET pair == <<Head(d).k, "=">> \o quote_plus(value_text(Head(d).v))
         IN  IF Len(d) = 1 THEN pair ELSE pair \o <<"&">> \o urlencode(Tail(d))

\* JSON text is a sequence of tokens: punctuation, strings and numbers
Punct(c) == [tok |-> c]
JStr(s) == [tok |-> "string", s |-> s]
JKey(k) == [tok |-> "string", s |-> k]      \* a member name: dict keys are atoms
JNum(n) == [tok |-> "number", n |-> n]

IsScalarToken(x) == x.tok \in {"string", "number"}
ScalarOf(x) == IF x.tok = "string" THEN PyStr(x.s) ELSE PyInt(x.n)

\* the members between the braces: key : value (, key : value)*
IsMembers(m) ==
    /\ Len(m) % 4 = 3
    /\ \A i \in 1..Len(m) :
        CASE i % 4 = 1 -> m[i].tok = "string"
          [] i % 4 = 2 -> m[i] = Punct(":")
          [] i % 4 = 3 -> IsScalarToken(m[i])
          [] OTHER -> m[i] = Punct(",")

MembersOf(m) ==
    [j \in 1..((Len(m) + 1) \div 4) |-> [k |-> m[4 * j - 3].s, v |-> ScalarOf(m[4 * j - 1])]]

JSONDecodeError == [ok |-> FALSE]
Decoded(v) == [ok |-> TRUE, val |-> v]

\* json.loads(body): objects of scalar members, the empty array, scalars
json_loads(body) ==
    IF Len(body) >= 2 /\ Head(body) = Punct("{") /\ body[Len(body)] = Punct("}")
    THEN LET m == SubSeq(body, 2, Len(body) - 1)
         IN  IF m = <<>> THEN Decoded(PyDict(<<>>))
             ELSE IF IsMembers(m) THEN Decoded(PyDict(MembersOf(m)))
             ELSE JSONDecodeError
    ELSE IF body = <<Punct("["), Punct("]")>> THEN Decoded(PyList(<<>>))
    ELSE IF Len(body) = 1 /\ IsScalarToken(body[1]) THEN Decoded(ScalarOf(body[1]))
    ELSE JSONDecodeError

(***************************************************************************)
(* bnc/rest.py: Request, Response                                          *)
(***************************************************************************)
Request(base_url, path, headers, params, resp_in_microseconds) ==
    [ base_url |-> base_url, path |-> path, method |-> "GET",
      headers |-> headers, params |-> params, api_key |-> PyNone,
      resp_in_microseconds |-> resp_in_microseconds, retry |-> 0 ]

Response(status_code, status, code, msg, data) ==
    [ status_code |-> status_code, status |-> status,
      code |-> code, msg |-> msg, data |-> data ]

(***************************************************************************)
(* bnc/rest.py: request                                                    *)
(***************************************************************************)
MaxRetries == 5

\* lines 65-68
build_url(r) ==
    r.base_url \o r.path \o
        (IF Truthy(r.params)
         THEN <<"?">> \o urlencode(tidy_request_params(r.params.d))
         ELSE <<>>)

\* lines 66-67: what the call of tidy_request_params leaves in req.params
tidy_effect(r) ==
    IF Truthy(r.params)
    THEN [r EXCEPT !.params = PyDict(tidy_argument_after(r.params.d))]
    ELSE r

\* lines 72-73, headers being a dict
inject_header(r) ==
    IF r.resp_in_microseconds
    THEN [r EXCEPT !.headers = PyDict(DictSet(r.headers.d, "X-MBX-TIME-UNIT", "MICROSECOND"))]
    ELSE r

\* line 73 raises TypeError when headers is None
HeaderAssignmentFails(r) == r.resp_in_microseconds /\ r.headers = PyNone

\* lines 65-73: the descriptor when requests.request is called
prepared(r) == inject_header(tidy_effect(r))

\* lines 75-79: the arguments handed to requests.request
http_call(r) == [method |-> r.method, url |-> build_url(r), headers |-> prepared(r).headers]

ConnectionError == [kind |-> "ConnectionError"]
Received(resp) == [kind |-> "response", response |-> resp]

\* the exceptions request() raises
RetriesException(n) ==
    Raised([type |-> "Exception", text |-> "Request failed after retries",
            retries |-> n, cause |-> "ConnectionError"])
ParseErrorException(body) ==
    Raised([type |-> "Exception", text |-> "Failed to parse error response", body |-> body])
ParseSuccessException(body) ==
    Raised([type |-> "Exception", text |-> "Failed to parse success response", body |-> body])
RequestFailedException(code, msg) ==
    Raised([type |-> "Exception", text |-> "Request failed", code |-> code, msg |-> msg])
TypeError == Raised([type |-> "TypeError"])
AttributeError == Raised([type |-> "AttributeError"])

\* lines 98-99 on a decoded dict
error_code(v) == DictGet(v.d, "code", PyInt(0))
error_msg(v) == DictGet(v.d, "msg", PyStr(<<>>))

\* The budget test of line 122 written with <= instead of <.
connection_retry_inclusive(r) == r.retry <= MaxRetries

\* line 122: a connection error is retried while the budget is not used up
connection_retry(r) == r.retry < MaxRetries

\* The budget test of line 102 written with <= instead of <.
Retry1021_inclusive(r, resp) ==
    /\ resp.status_code # 200
    /\ json_loads(resp.content).ok
    /\ json_loads(resp.content).val.t = "dict"
    /\ error_code(json_loads(resp.content).val) = PyInt(-1021)
    /\ r.retry <= MaxRetries

\* Line 102 without the test of the exchange code.
Retry1021_any_code(r, resp) ==
    /\ resp.status_code # 200
    /\ json_loads(resp.content).ok
    /\ json_loads(resp.content).val.t = "dict"
    /\ r.retry < MaxRetries

\* line 102: the response is a -1021 rejection and the budget is not used up
Retry1021(r, resp) ==
    /\ resp.status_code # 200
    /\ json_loads(resp.content).ok
    /\ json_loads(resp.content).val.t = "dict"
    /\ error_code(json_loads(resp.content).val) = PyInt(-1021)
    /\ r.retry < MaxRetries

\* lines 95-110 when the attempt is not retried
error_outcome(resp) ==
    LET parsed == json_loads(resp.content)
    IN  IF ~parsed.ok THEN ParseErrorException(resp.content)
        ELSE IF parsed.val.t # "dict" THEN AttributeError
        ELSE RequestFailedException(error_code(parsed.val), error_msg(parsed.val))

\* Lines 112-118 without the "if body:" test.
success_outcome_always_parse(resp) ==
    LET parsed == json_loads(resp.content)
    IN  IF parsed.ok
        THEN Returned(Response(resp.status_code, resp.reason, 0, <<>>, parsed.val))
        ELSE ParseSuccessException(resp.content)

\* Lines 112-118 without the assignment of line 115.
success_outcome_no_data(resp) ==
    IF resp.content = <<>>
    THEN Returned(Response(resp.status_code, resp.reason, 0, <<>>, PyNone))
    ELSE LET parsed == json_loads(resp.content)
         IN  IF parsed.ok
             THEN Returned(Response(resp.status_code, resp.reason, 0, <<>>, PyNone))
             ELSE ParseSuccessException(resp.content)

\* lines 86-92 and 112-118
success_outcome(resp) ==
    IF resp.content = <<>>
    THEN Returned(Response(resp.status_code, resp.reason, 0, <<>>, PyNone))
    ELSE LET parsed == json_loads(resp.content)
         IN  IF parsed.ok
             THEN Returned(Response(resp.status_code, resp.reason, 0, <<>>, parsed.val))
             ELSE ParseSuccessException(resp.content)

(***************************************************************************)
(* Descriptors and responses                                               *)
(***************************************************************************)
API_ENDPOINT == <<"API_ENDPOINT">>
API_V3 == <<"API_V3">>

NoArguments ==
    << [k |-> "symbol", v |-> PyNone], [k |-> "symbols", v |-> PyNone],
       [k |-> "permissions", v |-> PyNone], [k |-> "show_permission_sets", v |-> PyNone],
       [k |-> "symbol_status", v |-> PyNone] >>

\* bnc/spot.py: the descriptors of get_spot_server_time and get_spot_exchange_info
ExchangeInfoParams ==
    { PyDict(NoArguments),
      PyDict(DictSet(NoArguments, "symbols", PyList(<<PyStr(s_BTCUSDT), PyStr(s_ETHUSDT)>>))),
      PyDict(DictSet(NoArguments, "show_permission_sets", PyBool(TRUE))),
      PyDict(DictSet(DictSet(NoArguments, "symbol", PyStr(s_BTCUSDT)),
                     "permissions", PyList(<<>>))) }

HeaderMappings ==
    { PyNone, PyDict(<<>>), PyDict(<<[k |-> "Accept", v |-> "application/json"]>>) }

Descriptors ==
    {Request(API_ENDPOINT, API_V3 \o <<"/time">>, h, p, us) :
        h \in HeaderMappings, p \in {PyNone, PyDict(<<>>)}, us \in BOOLEAN}
    \cup
    {Request(API_ENDPOINT, API_V3 \o <<"/exchangeInfo">>, h, p, us) :
        h \in HeaderMappings, p \in ExchangeInfoParams, us \in BOOLEAN}

s_recv_window == <<"Timestamp outside recvWindow">>
s_invalid_symbol == <<"Invalid symbol.">>

\* a timestamp in seconds: TLC integers are 32 bits wide
b_server_time == <<Punct("{"), JKey("serverTime"), Punct(":"), JNum(1700000000), Punct("}")>>
b_recv_window ==
    << Punct("{"), JKey("code"), Punct(":"), JNum(-1021), Punct(","),
       JKey("msg"), Punct(":"), JStr(s_recv_window), Punct("}") >>
b_bad_symbol ==
    << Punct("{"), JKey("code"), Punct(":"), JNum(-1121), Punct(","),
       JKey("msg"), Punct(":"), JStr(s_invalid_symbol), Punct("}") >>
b_empty_object == <<Punct("{"), Punct("}")>>
b_array == <<Punct("["), Punct("]")>>
b_html == <<Punct("<"), JStr(<<"html">>), Punct(">")>>

Bodies == {<<>>, b_server_time, b_recv_window, b_bad_symbol, b_empty_object, b_array, b_html}

Responses ==
    {[status_code |-> 200, reason |-> "OK", content |-> b] : b \in Bodies}
    \cup {[status_code |-> 409, reason |-> "Conflict", content |-> b] : b \in Bodies}

(***************************************************************************)
(* Specification of request()                                              *)
(***************************************************************************)
NoCall == [method |-> "none"]

ReqIdle ==
    /\ req = Request(API_ENDPOINT, API_V3 \o <<"/ping">>, PyNone, PyNone, FALSE)
    /\ req0 = req
    /\ pc = "idle"
    /\ calls = 0
    /\ trace = <<>>
    /\ sent = NoCall
    /\ sleeps = 0
    /\ events = <<>>
    /\ result = Pending

Init ==
    /\ req \in Descriptors
    /\ req0 = req
    /\ pc = "idle"
    /\ calls = 0
    /\ trace = <<>>
    /\ sent = NoCall
    /\ sleeps = 0
    /\ events = <<>>
    /\ result = Pending
    /\ TidyIdle
    /\ PrecIdle
    /\ SymIdle

\* the caller invokes request(req)
Call ==
    /\ pc = "idle"
    /\ calls < MaxCalls
    /\ pc' = "running"
    /\ calls' = calls + 1
    /\ req0' = req
    /\ trace' = <<>>
    /\ sent' = NoCall
    /\ sleeps' = 0
    /\ events' = <<>>
    /\ result' = Pending
    /\ UNCHANGED <<req, tidyVars, precVars, symVars>>

\* line 73 with headers = None: TypeError, which no handler catches
HeaderTypeError ==
    /\ pc = "running"
    /\ HeaderAssignmentFails(req)
    /\ result' = TypeError
    /\ pc' = "idle"
    /\ req' = tidy_effect(req)
    /\ UNCHANGED <<req0, calls, trace, sent, sleeps, events, tidyVars, precVars, symVars>>

\* lines 120-125: requests.request raises ConnectionError, the call is retried
ConnectionErrorRetry ==
    /\ pc = "running"
    /\ ~HeaderAssignmentFails(req)
    /\ connection_retry(req)
    /\ sent' = http_call(req)
    /\ trace' = Append(trace, ConnectionError)
    /\ sleeps' = sleeps + 1
    /\ events' = events \o <<"request", "sleep">>
    /\ req' = [prepared(req) EXCEPT !.retry = @ + 1]
    /\ UNCHANGED <<req0, pc, calls, result, tidyVars, precVars, symVars>>

\* lines 120-126: requests.request raises ConnectionError, the budget is used up
ConnectionErrorExhausted ==
    /\ pc = "running"
    /\ ~HeaderAssignmentFails(req)
    /\ ~connection_retry(req)
    /\ sent' = http_call(req)
    /\ trace' = Append(trace, ConnectionError)
    /\ events' = Append(events, "request")
    /\ req' = prepared(req)
    /\ result' = RetriesException(req.retry)
    /\ pc' = "idle"
    /\ UNCHANGED <<req0, calls, sleeps, tidyVars, precVars, symVars>>

\* lines 95-105: a -1021 rejection, the call is retried
ErrorResponseRetry ==
    /\ pc = "running"
    /\ ~HeaderAssignmentFails(req)
    /\ \E resp \in Responses :
        /\ Retry1021(req, resp)
        /\ sent' = http_call(req)
        /\ trace' = Append(trace, Received(resp))
        /\ sleeps' = sleeps + 1
        /\ events' = events \o <<"request", "sleep">>
        /\ req' = [prepared(req) EXCEPT !.retry = @ + 1]
    /\ UNCHANGED <<req0, pc, calls, result, tidyVars, precVars, symVars>>

\* lines 95-110: a non-200 response that ends the call
ErrorResponse ==
    /\ pc = "running"
    /\ ~HeaderAssignmentFails(req)
    /\ \E resp \in Responses :
        /\ resp.status_code # 200
        /\ ~Retry1021(req, resp)
        /\ sent' = http_call(req)
        /\ trace' = Append(trace, Received(resp))
        /\ events' = Append(events, "request")
        /\ req' = prepared(req)
        /\ result' = error_outcome(resp)
    /\ pc' = "idle"
    /\ UNCHANGED <<req0, calls, sleeps, tidyVars, precVars, symVars>>

\* lines 112-118: a 200 response
SuccessResponse ==
    /\ pc = "running"
    /\ ~HeaderAssignmentFails(req)
    /\ \E resp \in Responses :
        /\ resp.status_code = 200
        /\ sent' = http_call(req)
        /\ trace' = Append(trace, Received(resp))
        /\ events' = Append(events, "request")
        /\ req' = prepared(req)
        /\ result' = success_outcome(resp)
    /\ pc' = "idle"
    /\ UNCHANGED <<req0, calls, sleeps, tidyVars, precVars, symVars>>

Next ==
    \/ Call
    \/ HeaderTypeError
    \/ ConnectionErrorRetry
    \/ ConnectionErrorExhausted
    \/ ErrorResponseRetry
    \/ ErrorResponse
    \/ SuccessResponse

Spec == Init /\ [][Next]_vars

(***************************************************************************)
(* Specification of tidy_request_params                                    *)
(***************************************************************************)
TidyInit ==
    /\ tparams \in ParamsInputs
    /\ tparams0 = tparams
    /\ tout = Pending
    /\ PrecIdle
    /\ SymIdle
    /\ ReqIdle

Tidy ==
    /\ tout = Pending
    /\ tout' = Returned(tidy_request_params(tparams))
    /\ tparams' = tidy_argument_after(tparams)
    /\ UNCHANGED <<tparams0, precVars, reqVars, symVars>>

TidyNext == Tidy

TidySpec == TidyInit /\ [][TidyNext]_vars

(***************************************************************************)
(* Specification of the precision helper                                   *)
(***************************************************************************)
PrecInit ==
    /\ size \in SizeInputs
    /\ prec = Pending
    /\ TidyIdle
    /\ SymIdle
    /\ ReqIdle

GetPrec ==
    /\ prec = Pending
    /\ prec' = get_prec_just_for_binance_filter(size)
    /\ UNCHANGED <<size, tidyVars, reqVars, symVars>>

PrecNext == GetPrec

PrecSpec == PrecInit /\ [][PrecNext]_vars

(***************************************************************************)
(* bnc/spot.py: analyze_exchange_symbol_filters, to_cex_symbol             *)
(***************************************************************************)
\* calling the TypedDict ExchangeSymbolFiltersInfo makes a plain dict
ExchangeSymbolFiltersInfo(pPrec, qPrec, canMarket) ==
    PyDict(<< [k |-> "pPrec", v |-> PyInt(pPrec)],
              [k |-> "qPrec", v |-> PyInt(qPrec)],
              [k |-> "canMarket", v |-> PyBool(canMarket)] >>)

FilterTypeNotString == Raised("exchange info filter type is not string")
TickSizeNotString == Raised("exchange info tickSize type is not string")
StepSizeNotString == Raised("exchange info stepSize type is not string")

\* the values the loop carries from one filter to the next
Precisions(p_prec, q_prec) == [p_prec |-> p_prec, q_prec |-> q_prec]

\* The loop body passing over a size field that is not a string.
analyze_filter_skip_bad_size(filter_data, p_prec, q_prec) ==
    LET filter_type == DictGet(filter_data.d, "filterType", PyNone)
    IN  IF filter_type.t # "str"
        THEN FilterTypeNotString
        ELSE IF filter_type.s = <<"PRICE_FILTER">>
        THEN LET tick_size == DictGet(filter_data.d, "tickSize", PyNone)
             IN  IF tick_size.t # "str"
                 THEN Returned(Precisions(p_prec, q_prec))
                 ELSE LET p == get_prec_just_for_binance_filter(tick_size.s)
                      IN  IF p.st = "raised" THEN p
                          ELSE Returned(Precisions(p.val, q_prec))
        ELSE IF filter_type.s = <<"LOT_SIZE">>
        THEN LET step_size == DictGet(filter_data.d, "stepSize", PyNone)
             IN  IF step_size.t # "str"
                 THEN Returned(Precisions(p_prec, q_prec))
                 ELSE LET q == get_prec_just_for_binance_filter(step_size.s)
                      IN  IF q.st = "raised" THEN q
                          ELSE Returned(Precisions(p_prec, q.val))
        ELSE Returned(Precisions(p_prec, q_prec))

\* lines 150-167: the body of the loop, for one filter
analyze_filter(filter_data, p_prec, q_prec) ==
    LET filter_type == DictGet(filter_data.d, "filterType", PyNone)
    IN  IF filter_type.t # "str"
        THEN FilterTypeNotString
        ELSE IF filter_type.s = <<"PRICE_FILTER">>
        THEN LET tick_size == DictGet(filter_data.d, "tickSize", PyNone)
             IN  IF tick_size.t # "str"
                 THEN TickSizeNotString
                 ELSE LET p == get_prec_just_for_binance_filter(tick_size.s)
                      IN  IF p.st = "raised" THEN p
                          ELSE Returned(Precisions(p.val, q_prec))
        ELSE IF filter_type.s = <<"LOT_SIZE">>
        THEN LET step_size == DictGet(filter_data.d, "stepSize", PyNone)
             IN  IF step_size.t # "str"
                 THEN StepSizeNotString
                 ELSE LET q == get_prec_just_for_binance_filter(step_size.s)
                      IN  IF q.st = "raised" THEN q
                          ELSE Returned(Precisions(p_prec, q.val))
        ELSE Returned(Precisions(p_prec, q_prec))

\* lines 149-173: the loop over the filters and the return
RECURSIVE analyze_loop(_, _, _)
analyze_loop(filters, p_prec, q_prec) ==
    IF filters = <<>>
    THEN Returned(ExchangeSymbolFiltersInfo(p_prec, q_prec, FALSE))
    ELSE LET step == analyze_filter(Head(filters), p_prec, q_prec)
         IN  IF step.st = "raised" THEN step
             ELSE analyze_loop(Tail(filters), step.val.p_prec, step.val.q_prec)

\* lines 145-147: p_prec = 0, q_prec = 0
analyze_exchange_symbol_filters(filters) == analyze_loop(filters, 0, 0)

\* an object with attributes, as opposed to a dict
PyObject(attrs) == [t |-> "object", attrs |-> attrs]

NoAttribute == Raised("AttributeError")

\* v.name: dicts, and so the instances of a TypedDict, have no such attribute
getattr(v, name) ==
    IF v.t = "object" /\ DictHas(v.attrs, name)
    THEN Returned(DictGet(v.attrs, name, PyNone))
    ELSE NoAttribute

\* the first exception raised by a sequence of evaluations, if any
RECURSIVE FirstRaised(_)
FirstRaised(outcomes) ==
    IF outcomes = <<>> THEN Pending
    ELSE IF Head(outcomes).st = "raised" THEN Head(outcomes)
    ELSE FirstRaised(Tail(outcomes))

\* the keyword arguments of Symbol(...) at lines 53-64
Symbol(asset, quote, symbol, q_precision, p_precision, tradable, can_market, can_margin) ==
    [ cex |-> "BINANCE", type |-> "SPOT", asset |-> asset, quote |-> quote,
      symbol |-> symbol, q_precision |-> q_precision, p_precision |-> p_precision,
      tradable |-> tradable, can_market |-> can_market, can_margin |-> can_margin ]

s_TRADING == <<"TRADING">>
s_MARKET == <<"MARKET">>

In(x, items) == \E i \in 1..Len(items) : items[i] = x

\* lines 51-64
to_cex_symbol(exchange_symbol) ==
    LET filters == getattr(exchange_symbol, "filters")
    IN  IF filters.st = "raised"
        THEN filters
        ELSE
        LET filters_info == analyze_exchange_symbol_filters(filters.val.items)
        IN  IF filters_info.st = "raised"
            THEN filters_info
            ELSE
            LET asset == getattr(exchange_symbol, "base_asset")
                quote == getattr(exchange_symbol, "quote_asset")
                symbol == getattr(exchange_symbol, "symbol")
                q_prec == getattr(filters_info.val, "q_prec")
                p_prec == getattr(filters_info.val, "p_prec")
                status == getattr(exchange_symbol, "status")
                order_types == getattr(exchange_symbol, "order_types")
                can_margin == getattr(exchange_symbol, "is_margin_trading_allowed")
                raised == FirstRaised(<<asset, quote, symbol, q_prec, p_prec,
                                        status, order_types, can_margin>>)
            IN  IF raised # Pending
                THEN raised
                ELSE Returned(Symbol(asset.val, quote.val, symbol.val, q_prec.val, p_prec.val,
                                     status.val = PyStr(s_TRADING),
                                     In(PyStr(s_MARKET), order_types.val.items),
                                     can_margin.val))

(***************************************************************************)
(* Exchange symbol records                                                 *)
(***************************************************************************)
s_0_00100000 == <<"0", ".", "0", "0", "1", "0", "0", "0", "0", "0">>
s_1_00000000 == <<"1", ".", "0", "0", "0", "0", "0", "0", "0", "0">>

PriceFilter(tickSize) ==
    PyDict(<<[k |-> "filterType", v |-> PyStr(<<"PRICE_FILTER">>)], [k |-> "tickSize", v |-> tickSize]>>)
LotSize(stepSize) ==
    PyDict(<<[k |-> "filterType", v |-> PyStr(<<"LOT_SIZE">>)], [k |-> "stepSize", v |-> stepSize]>>)

Filters ==
    { PriceFilter(PyStr(s_0_00100000)),
      PriceFilter(PyStr(<<"1", "0">>)),
      PriceFilter(PyStr(<<"2", ".", "5">>)),
      PyDict(<<[k |-> "filterType", v |-> PyStr(<<"PRICE_FILTER">>)]>>),
      LotSize(PyStr(s_1_00000000)),
      LotSize(PyStr(<<"0", ".", "1">>)),
      LotSize(PyInt(1)),
      PyDict(<<[k |-> "filterType", v |-> PyStr(<<"NOTIONAL">>)],
               [k |-> "minNotional", v |-> PyStr(<<"5", ".", "0">>)]>>),
      PyDict(<<[k |-> "tickSize", v |-> PyStr(<<"0", ".", "1">>)]>>) }

FilterLists == ListsOver(Filters, MaxFilters)

\* a decoded JSON record: a dict with the keys of SpotExchangeSymbol
SymbolRecord(status, orderTypes, margin, filters) ==
    PyDict(<< [k |-> "symbol", v |-> PyStr(s_BTCUSDT)],
              [k |-> "status", v |-> PyStr(status)],
              [k |-> "baseAsset", v |-> PyStr(<<"BTC">>)],
              [k |-> "quoteAsset", v |-> PyStr(<<"USDT">>)],
              [k |-> "orderTypes", v |-> PyList(orderTypes)],
              [k |-> "isMarginTradingAllowed", v |-> PyBool(margin)],
              [k |-> "filters", v |-> PyList(filters)] >>)

\* the same data as an object with the attributes to_cex_symbol reads
SymbolObject(status, orderTypes, margin, filters) ==
    PyObject(<< [k |-> "symbol", v |-> PyStr(s_BTCUSDT)],
                [k |-> "status", v |-> PyStr(status)],
                [k |-> "base_asset", v |-> PyStr(<<"BTC">>)],
                [k |-> "quote_asset", v |-> PyStr(<<"USDT">>)],
                [k |-> "order_types", v |-> PyList(orderTypes)],
                [k |-> "is_margin_trading_allowed", v |-> PyBool(margin)],
                [k |-> "filters", v |-> PyList(filters)] >>)

ExchangeSymbols ==
    {SymbolRecord(s_TRADING, <<PyStr(<<"LIMIT">>), PyStr(s_MARKET)>>, TRUE, f) : f \in FilterLists}
    \cup {SymbolObject(<<"BREAK">>, <<PyStr(<<"LIMIT">>)>>, FALSE, f) : f \in FilterLists}

\* the filter list of a record, whichever its form
FiltersOf(x) ==
    IF x.t = "dict" THEN DictGet(x.d, "filters", PyNone).items
    ELSE DictGet(x.attrs, "filters", PyNone).items

(***************************************************************************)
(* Specification of the symbol mapping                                     *)
(***************************************************************************)
SymInit ==
    /\ exsym \in ExchangeSymbols
    /\ finfo = Pending
    /\ cexsym = Pending
    /\ TidyIdle
    /\ PrecIdle
    /\ ReqIdle

AnalyzeFilters ==
    /\ finfo = Pending
    /\ finfo' = analyze_exchange_symbol_filters(FiltersOf(exsym))
    /\ UNCHANGED <<exsym, cexsym, tidyVars, precVars, reqVars>>

ToCexSymbol ==
    /\ cexsym = Pending
    /\ cexsym' = to_cex_symbol(exsym)
    /\ UNCHANGED <<exsym, finfo, tidyVars, precVars, reqVars>>

SymNext == AnalyzeFilters \/ ToCexSymbol

SymSpec == SymInit /\ [][SymNext]_vars

(***************************************************************************)
(* Claims about request()                                                  *)
(***************************************************************************)
\* the logical call has returned or raised
Done == pc = "idle" /\ result # Pending

Last(s) == s[Len(s)]

AllConnectionErrors(tr) == \A i \in 1..Len(tr) : tr[i] = ConnectionError

\* a non-200 response whose body is the -1021 error object
IsRecvWindowRejection(e) ==
    /\ e.kind = "response"
    /\ e.response.status_code # 200
    /\ e.response.content = b_recv_window

AllRecvWindowRejections(tr) == \A i \in 1..Len(tr) : IsRecvWindowRejection(tr[i])

\* C1: on a fresh descriptor, when every HTTP attempt ends in a connection
\* error, the call makes exactly 6 attempts (5 retries) and then raises the
\* retries-exhausted exception caused by the connection error; it makes no
\* 7th attempt and does not give up earlier.
C1_ConnectionRetriesExhaust ==
    (calls >= 1 /\ req0.retry = 0 /\ trace # <<>> /\ AllConnectionErrors(trace)) =>
        /\ Len(trace) <= MaxRetries + 1
        /\ Len(trace) <= MaxRetries => (pc = "running" /\ result = Pending)
        /\ Len(trace) = MaxRetries + 1 =>
            /\ pc = "idle"
            /\ result = RetriesException(5)
            /\ result.exc.cause = "ConnectionError"
            /\ req.retry = 5

C1_Witness ==
    /\ req0.retry = 0
    /\ Len(trace) = 6
    /\ AllConnectionErrors(trace)
    /\ result = RetriesException(5)

\* C2: on a fresh descriptor, when every HTTP attempt returns a non-200
\* response carrying exchange code -1021, the call retries exactly 5 times
\* and then raises the request-failed exception with code -1021 and the
\* message; it never returns an envelope.
C2_RecvWindowRetriesExhaust ==
    (calls >= 1 /\ req0.retry = 0 /\ trace # <<>> /\ AllRecvWindowRejections(trace)) =>
        /\ Len(trace) <= MaxRetries + 1
        /\ result.st # "returned"
        /\ Len(trace) <= MaxRetries => (pc = "running" /\ result = Pending)
        /\ Len(trace) = MaxRetries + 1 =>
            /\ pc = "idle"
            /\ result = RequestFailedException(PyInt(-1021), PyStr(s_recv_window))
            /\ req.retry = 5
            /\ sleeps = 5

C2_Witness ==
    /\ req0.retry = 0
    /\ Len(trace) = 6
    /\ AllRecvWindowRejections(trace)
    /\ result = RequestFailedException(PyInt(-1021), PyStr(s_recv_window))
    /\ req.retry = 5

\* bodies that are not JSON, and error objects with a code other than -1021
NotJsonBodies == {<<>>, b_html}
OtherErrorCode(body) ==
    IF body = b_bad_symbol THEN PyInt(-1121) ELSE PyInt(0)
OtherErrorMsg(body) ==
    IF body = b_bad_symbol THEN PyStr(s_invalid_symbol) ELSE PyStr(<<>>)

\* the attempt of this step ended the call: no wait, no retry counted
EndsCall == pc' = "idle" /\ sleeps' = sleeps /\ req'.retry = req.retry

C5_OnlyRetryChanges ==
    [req EXCEPT !.retry = 0] = [req0 EXCEPT !.retry = 0]

\* C6: on a 200 response request() returns an envelope with status code 200,
\* the decoded JSON body as payload (None for an empty body) and no error
\* code or message.
C6_SuccessEnvelope ==
    (Done /\ trace # <<>> /\ Last(trace).kind = "response"
          /\ Last(trace).response.status_code = 200
          /\ Last(trace).response.content # b_html) =>
        LET body == Last(trace).response.content
        IN  /\ result.st = "returned"
            /\ result.val.status_code = 200
            /\ result.val.code = 0
            /\ result.val.msg = <<>>
            /\ body = <<>> => result.val.data = PyNone
            /\ body = b_server_time =>
                /\ result.val.data.t = "dict"
                /\ DictGet(result.val.data.d, "serverTime", PyNone) = PyInt(1700000000)
            /\ body = b_array => result.val.data = PyList(<<>>)
            /\ body = b_empty_object => result.val.data = PyDict(<<>>)
            /\ body = b_recv_window =>
                result.val.data = PyDict(<< [k |-> "code", v |-> PyInt(-1021)],
                                            [k |-> "msg", v |-> PyStr(s_recv_window)] >>)

C6_Witness ==
    /\ Done
    /\ Len(trace) = 2
    /\ Last(trace) = Received([status_code |-> 200, reason |-> "OK", content |-> b_server_time])
    /\ result.st = "returned"
    /\ DictGet(result.val.data.d, "serverTime", PyNone) = PyInt(1700000000)

\* C8: whenever the microsecond flag is set, every attempt injects the header
\* X-MBX-TIME-UNIT: MICROSECOND and issues the HTTP call, also for the
\* default header mapping; the flag never makes the call fail before an HTTP
\* attempt is issued.
C8_FlagInjectsHeader ==
    (req.resp_in_microseconds /\ calls >= 1) =>
        /\ Done => trace # <<>>
        /\ trace # <<>> =>
            /\ sent.headers.t = "dict"
            /\ DictGet(sent.headers.d, "X-MBX-TIME-UNIT", "") = "MICROSECOND"

\* C9: every logical call, also a later one on the same descriptor, has the
\* budget of 5 retries: a call whose attempts all end in connection errors
\* gives up after 6 attempts, not earlier.
C9_BudgetOfEveryCall ==
    (Done /\ trace # <<>> /\ AllConnectionErrors(trace)) => Len(trace) = MaxRetries + 1

(***************************************************************************)
(* Claims about tidy_request_params                                        *)
(***************************************************************************)
Keys(d) == {d[i].k : i \in 1..Len(d)}
HasKey(d, key) == \E i \in 1..Len(d) : d[i].k = key
Get(d, key) == d[CHOOSE i \in 1..Len(d) : d[i].k = key].v

\* an item of a list literal: a string in double quotes, anything else as str()
ItemText(x) == IF x.t = "str" THEN <<"\"">> \o x.s \o <<"\"">> ELSE str(x)

\* the items joined by single commas
RECURSIVE JoinItems(_)
JoinItems(items) ==
    IF Len(items) = 1
    THEN ItemText(items[1])
    ELSE ItemText(items[1]) \o <<",">> \o JoinItems(Tail(items))

BracketedLiteral(items) == <<"[">> \o JoinItems(items) \o <<"]">>

\* C4: every non-empty list value is serialized as "[" + the items joined by
\* single commas + "]", strings in double quotes, other items as their text,
\* for lists of strings, lists of non-strings and mixed lists.
C4_ListLiteral ==
    tout # Pending =>
        \A i \in 1..Len(tparams) :
            (tparams[i].v.t = "list" /\ Len(tparams[i].v.items) > 0) =>
                /\ HasKey(tout.val, tparams[i].k)
                /\ Get(tout.val, tparams[i].k) = PyStr(BracketedLiteral(tparams[i].v.items))

\* C10: entries with value None are dropped, booleans become "true"/"false",
\* every other non-list value and every empty list is passed through
\* unchanged under its key, and the output keys are exactly the input keys
\* whose value is not None.
C10_DropNoneAndBooleans ==
    tout # Pending =>
        /\ Keys(tout.val) = {tparams[i].k : i \in {j \in 1..Len(tparams) : tparams[j].v # PyNone}}
        /\ Len(tout.val) = Cardinality(Keys(tout.val))
        /\ \A i \in 1..Len(tparams) :
            LET v == tparams[i].v
                key == tparams[i].k
            IN  /\ v = PyNone => ~HasKey(tout.val, key)
                /\ v = PyBool(TRUE) => Get(tout.val, key) = PyStr(<<"t", "r", "u", "e">>)
                /\ v = PyBool(FALSE) => Get(tout.val, key) = PyStr(<<"f", "a", "l", "s", "e">>)
                /\ (v.t \in {"str", "int"} \/ v = PyList(<<>>)) => Get(tout.val, key) = v

C10_Witness ==
    /\ tout # Pending
    /\ tparams = << [k |-> "symbol", v |-> PyNone],
                    [k |-> "symbols", v |-> PyList(<<>>)],
                    [k |-> "show_permission_sets", v |-> PyBool(TRUE)] >>
    /\ tout.val = << [k |-> "symbols", v |-> PyList(<<>>)],
                     [k |-> "show_permission_sets", v |-> PyStr(<<"t", "r", "u", "e">>)] >>

(***************************************************************************)
(* Claims about get_prec_just_for_binance_filter                           *)
(***************************************************************************)
RECURSIVE Zeros(_)
Zeros(n) == IF n = 0 THEN <<>> ELSE <<"0">> \o Zeros(n - 1)

\* the decimal strings denoting 10^n: "1" and n zeros, optionally "." and k zeros
PowerOfTen(n, k) ==
    {<<"1">> \o Zeros(n)} \cup {<<"1">> \o Zeros(n) \o <<".">> \o Zeros(k)}

\* "0." followed by n-1 zeros, then "1", then k zeros
NegPowerOfTen(n, k) == <<"0", ".">> \o Zeros(n - 1) \o <<"1">> \o Zeros(k)

\* C7: for every string denoting 10^n (with or without a fractional part of
\* zeros) the helper returns -n, and for every string "0." + (n-1) zeros +
\* "1" + zeros it returns n.
C7_PowerOfTenPrecision ==
    prec # Pending =>
        \A n \in 0..10, k \in 0..10 :
            /\ size \in PowerOfTen(n, k) => prec = Returned(-n)
            /\ (n >= 1 /\ size = NegPowerOfTen(n, k)) => prec = Returned(n)

C7_Witness ==
    /\ size = <<"0", ".", "0", "0", "1", "0", "0", "0", "0", "0">>
    /\ prec = Returned(3)

\* the characters before the first "."
IntegerPart(s) ==
    IF \E i \in 1..Len(s) : s[i] = "."
    THEN SubSeq(s, 1, (CHOOSE i \in 1..Len(s) : s[i] = "." /\ \A j \in 1..(i - 1) : s[j] # ".") - 1)
    ELSE s

Contains(s, c) == \E i \in 1..Len(s) : s[i] = c

\* the string denotes a value >= 1: a non-zero digit before the "."
ValueAtLeastOne(s) == \E i \in 1..Len(IntegerPart(s)) : IntegerPart(s)[i] \in {"1", "2", "5"}

\* C11 as stated: the precision is non-negative when the string denotes a
\* value >= 1 and negative only when it denotes a value < 1.
C11_SignAsStated ==
    prec.st = "returned" =>
        /\ ValueAtLeastOne(size) => prec.val >= 0
        /\ prec.val < 0 => ~ValueAtLeastOne(size)

\* C11 amended: the precision is <= 0 when the integer part holds the digit
\* 1 and >= 1 otherwise (the 1 is in the fractional part), so for powers of
\* ten it is non-positive for values >= 1 and positive for values < 1.
C11_SignConvention ==
    prec.st = "returned" =>
        /\ Contains(IntegerPart(size), "1") => prec.val <= 0
        /\ ~Contains(IntegerPart(size), "1") => prec.val >= 1
        /\ \A n \in 0..10, k \in 0..10 :
            /\ size \in PowerOfTen(n, k) => (ValueAtLeastOne(size) /\ prec.val <= 0)
            /\ (n >= 1 /\ size = NegPowerOfTen(n, k)) => (~ValueAtLeastOne(size) /\ prec.val >= 1)

C11_Witness ==
    /\ size = <<"1", "0", "0", ".", "0">>
    /\ prec = Returned(-2)

\* C13: every string without the digit 1, with or without a fractional
\* part, raises the "unknown size" exception and returns no precision.
C13_NoOneRaises ==
    (prec # Pending /\ ~Contains(size, "1")) => prec = Raised("unknown size")

C13_Witness ==
    /\ size = <<"2", ".", "5">>
    /\ prec = Raised("unknown size")

C14_WitnessTidy ==
    /\ tout # Pending
    /\ Len(tparams0) = 3
    /\ tparams0[2].v = PyList(<<PyInt(1), PyStr(s_BTCUSDT)>>)
    /\ tparams = tparams0

IsRetried(e) == e = ConnectionError \/ IsRecvWindowRejection(e)

\* C15: whatever the attempts meet, a logical call on a fresh descriptor is
\* over after at most 6 HTTP attempts, the retry counter stays within 0..5,
\* and connection-error retries and -1021 retries together are at most 5.
C15_BoundedAttempts ==
    /\ req.retry \in 0..MaxRetries
    /\ (calls >= 1 /\ req0.retry = 0) =>
        /\ Len(trace) <= MaxRetries + 1
        /\ Len(trace) = MaxRetries + 1 => Done
        /\ Cardinality({i \in 1..Len(trace) : IsRetried(trace[i])}) <= MaxRetries + 1
        /\ pc = "running" => \A i \in 1..Len(trace) : IsRetried(trace[i])
        /\ req.retry <= Len(trace)
        /\ req.retry = sleeps
        /\ sleeps <= MaxRetries

C15_Witness ==
    /\ req0.retry = 0
    /\ Done
    /\ Len(trace) = 6
    /\ trace[1] = ConnectionError
    /\ IsRecvWindowRejection(trace[2])
    /\ trace[5] = ConnectionError
    /\ IsRecvWindowRejection(trace[6])
    /\ req.retry = 5

\* the payload json.loads makes of each JSON body
PayloadOf(body) ==
    IF body = <<>> THEN PyNone
    ELSE IF body = b_server_time
    THEN PyDict(<<[k |-> "serverTime", v |-> PyInt(1700000000)]>>)
    ELSE IF body = b_recv_window
    THEN PyDict(<<[k |-> "code", v |-> PyInt(-1021)], [k |-> "msg", v |-> PyStr(s_recv_window)]>>)
    ELSE IF body = b_bad_symbol
    THEN PyDict(<<[k |-> "code", v |-> PyInt(-1121)], [k |-> "msg", v |-> PyStr(s_invalid_symbol)]>>)
    ELSE IF body = b_empty_object THEN PyDict(<<>>)
    ELSE PyList(<<>>)

\* C16: the envelope of a call reflects the final attempt only: after one or
\* more retried attempts a 200 response yields an envelope with that
\* attempt's status and payload and no code or message of the discarded
\* attempts, and no envelope is produced before the call is over.
C16_FinalAttemptOnly ==
    /\ pc = "running" => result = Pending
    /\ (Done /\ Len(trace) >= 2 /\ Last(trace).kind = "response"
             /\ Last(trace).response.status_code = 200
             /\ Last(trace).response.content # b_html) =>
        result = Returned(Response(200, Last(trace).response.reason, 0, <<>>,
                                   PayloadOf(Last(trace).response.content)))

C16_Witness ==
    /\ Done
    /\ Len(trace) = 3
    /\ IsRecvWindowRejection(trace[1])
    /\ trace[2] = ConnectionError
    /\ Last(trace) = Received([status_code |-> 200, reason |-> "OK", content |-> b_server_time])
    /\ result.st = "returned"
    /\ result.val.code = 0
    /\ result.val.msg = <<>>

NumSleeps == Cardinality({i \in 1..Len(events) : events[i] = "sleep"})
NumRequests == Cardinality({i \in 1..Len(events) : events[i] = "request"})

\* C17: every retry is preceded by exactly one wait that comes after the
\* failed attempt and before the next attempt, no wait comes before the
\* first attempt or before a terminal failure, and in every execution the
\* number of waits equals the number of retry-counter increments and the
\* number of HTTP attempts minus one.
C17_BackoffOrdering ==
    /\ \A i \in 1..Len(events) : events[i] = (IF i % 2 = 1 THEN "request" ELSE "sleep")
    /\ NumSleeps = req.retry - req0.retry
    /\ NumRequests = Len(trace)
    /\ Done => NumSleeps = NumRequests - 1

\* the same for the calls that issue at least one HTTP attempt
C17_BackoffOrderingOfAttempts ==
    /\ \A i \in 1..Len(events) : events[i] = (IF i % 2 = 1 THEN "request" ELSE "sleep")
    /\ NumSleeps = req.retry - req0.retry
    /\ NumRequests = Len(trace)
    /\ (Done /\ trace # <<>>) => NumSleeps = NumRequests - 1

\* the mapping holds at least one value that is not None
ParametersPresent(p) == p.t = "dict" /\ \E i \in 1..Len(p.d) : p.d[i].v # PyNone

\* C19: the URL of every HTTP call is base URL + path, followed by "?" and
\* the query string only if parameters are present: for an absent mapping,
\* an empty mapping and a mapping of None values it is exactly base + path.
C19_QueryOnlyIfParams ==
    sent # NoCall =>
        LET plain == req0.base_url \o req0.path
        IN  /\ ~ParametersPresent(req0.params) => sent.url = plain
            /\ ParametersPresent(req0.params) =>
                /\ Len(sent.url) > Len(plain) + 1
                /\ SubSeq(sent.url, 1, Len(plain) + 1) = plain \o <<"?">>


(***************************************************************************)
(* Claims about analyze_exchange_symbol_filters() and to_cex_symbol()      *)
(***************************************************************************)
FilterType(f) == DictGet(f.d, "filterType", PyNone)
IsPriceFilter(f) == FilterType(f) = PyStr(<<"PRICE_FILTER">>)
IsLotSize(f) == FilterType(f) = PyStr(<<"LOT_SIZE">>)
SizeField(f) ==
    IF IsPriceFilter(f) THEN DictGet(f.d, "tickSize", PyNone)
    ELSE DictGet(f.d, "stepSize", PyNone)
\* a recognized filter whose size field is missing or not a string
BadSize(f) == (IsPriceFilter(f) \/ IsLotSize(f)) /\ SizeField(f).t # "str"
\* a recognized filter whose size string the precision function rejects
BadFormat(f) ==
    /\ IsPriceFilter(f) \/ IsLotSize(f)
    /\ SizeField(f).t = "str"
    /\ get_prec_just_for_binance_filter(SizeField(f).s).st = "raised"
FilterFails(f) == FilterType(f).t # "str" \/ BadSize(f) \/ BadFormat(f)
Largest(S) == CHOOSE i \in S : \A j \in S : j <= i
Smallest(S) == CHOOSE i \in S : \A j \in S : i <= j
\* the precision of the last filter of a kind, 0 when there is none
PrecisionFrom(fs, IsKind(_)) ==
    LET of_kind == {i \in 1..Len(fs) : IsKind(fs[i])}
    IN  IF of_kind = {} THEN 0
        ELSE get_prec_just_for_binance_filter(SizeField(fs[Largest(of_kind)]).s).val
IsUnrecognized(f) == FilterType(f).t = "str" /\ ~IsPriceFilter(f) /\ ~IsLotSize(f)
WithoutUnrecognized(fs) == SelectSeq(fs, LAMBDA f : ~IsUnrecognized(f))

\* C18: the filters are walked in order.  Filters of an unrecognized string
\* type have no effect on the outcome.  When no filter fails, the price
\* precision is that of the last PRICE_FILTER's tickSize and the quantity
\* precision that of the last LOT_SIZE's stepSize, 0 when there is none.
\* When the first filter that fails is a PRICE_FILTER or LOT_SIZE whose size
\* field is missing or not a string, the call raises the type exception of
\* that field; whenever any filter fails, no filter info is returned.
C18_FilterWalk ==
    finfo # Pending =>
        LET fs == FiltersOf(exsym)
            failing == {i \in 1..Len(fs) : FilterFails(fs[i])}
        IN  /\ finfo = analyze_exchange_symbol_filters(WithoutUnrecognized(fs))
            /\ IF failing = {}
               THEN finfo = Returned(ExchangeSymbolFiltersInfo(
                                PrecisionFrom(fs, IsPriceFilter),
                                PrecisionFrom(fs, IsLotSize), FALSE))
               ELSE /\ finfo.st = "raised"
                    /\ BadSize(fs[Smallest(failing)]) =>
                           finfo = IF IsPriceFilter(fs[Smallest(failing)])
                                   THEN TickSizeNotString
                                   ELSE StepSizeNotString

\* a good PRICE_FILTER, an unrecognized filter, then a LOT_SIZE whose
\* stepSize is an integer: the stepSize exception, no filter info
C18_Witness ==
    /\ FiltersOf(exsym) = << PriceFilter(PyStr(s_0_00100000)),
                             PyDict(<<[k |-> "filterType", v |-> PyStr(<<"NOTIONAL">>)],
                                      [k |-> "minNotional", v |-> PyStr(<<"5", ".", "0">>)]>>),
                             LotSize(PyInt(1)) >>
    /\ finfo = StepSizeNotString

\* a field of an exchange symbol record, whichever its form
RecordField(x, key, attribute) ==
    IF x.t = "dict" THEN DictGet(x.d, key, PyNone)
    ELSE DictGet(x.attrs, attribute, PyNone)

\* the generic symbol the mapping is described to produce
ExpectedSymbol(x, info) ==
    Symbol(RecordField(x, "baseAsset", "base_asset"),
           RecordField(x, "quoteAsset", "quote_asset"),
           RecordField(x, "symbol", "symbol"),
           DictGet(info.d, "qPrec", PyNone),
           DictGet(info.d, "pPrec", PyNone),
           RecordField(x, "status", "status") = PyStr(s_TRADING),
           In(PyStr(s_MARKET), RecordField(x, "orderTypes", "order_types").items),
           RecordField(x, "isMarginTradingAllowed", "is_margin_trading_allowed"))

\* C12: for a record whose filters are analyzed without error, to_cex_symbol
\* returns the generic symbol with the analyzed precisions, tradable =
\* (status = TRADING), can_market = (MARKET in order types), the margin flag
\* and the base, quote and symbol codes of the record; for the filters
\* PRICE_FILTER "0.00100000", LOT_SIZE "1.00000000" the precisions are 3 and 0.
C12_GenericSymbol ==
    LET info == analyze_exchange_symbol_filters(FiltersOf(exsym))
    IN  (cexsym # Pending /\ info.st = "returned") =>
            /\ cexsym = Returned(ExpectedSymbol(exsym, info.val))
            /\ FiltersOf(exsym) = <<PriceFilter(PyStr(s_0_00100000)), LotSize(PyStr(s_1_00000000))>> =>
                   /\ info.val = ExchangeSymbolFiltersInfo(3, 0, FALSE)
                   /\ cexsym.val.p_precision = PyInt(3)
                   /\ cexsym.val.q_precision = PyInt(0)

\* Every call of to_cex_symbol ends in an exception, whatever the record.
C12_NeverReturns == cexsym # Pending => cexsym.st = "raised"

====
